---- MODULE Spec2Model ----
(***************************************************************************)
(* Authentication-code lifecycle of sample-hono-authjs                     *)
(* (src/src/domain/authService.ts, src/src/lib/crypto/index.ts).           *)
(*                                                                         *)
(* Time is counted in whole minutes.  An optional argument of the          *)
(* TypeScript code is a sequence: << >> when omitted, <<v>> when given.    *)
(* An auth code is the sequence of its characters' digit values.           *)
(***************************************************************************)
EXTENDS Integers, Sequences, FiniteSets, TLC

\* ---------------------------------------------------------------- bounds
MaxTime == 3
MaxAttemptsGiven == 2
MaxExpirationGiven == 2
MaxFnAttempts == 6
RandomSteps == 7
MaxIssued == 2
MaxLockTime == 12
MaxSignUps == 3

\* ------------------------------------------------------ program constants
DefaultExpirationMinutes == 30
DefaultMaxAttempts == 5
VerifyDefaultMaxAttempts == 5
LockMinutes == 10

\* ------------------------------------------------------------ value sets
Procs == {"a", "b"}
Salts == {"s1"}
CorrectCode == <<1, 2, 3, 4, 5, 6>>
OtherCode == <<6, 5, 4, 3, 2, 1>>
Codes == {CorrectCode, OtherCode}
Identifier == [email |-> "test@example.com"]
MaxAttemptsOptions == {<< >>} \cup {<<n>> : n \in 0..MaxAttemptsGiven}
ExpirationOptions == {<< >>} \cup {<<n>> : n \in 0..MaxExpirationGiven}
VerifyFnOptions == {<< >>, <<"mockEquals">>, <<"rejecting">>}

\* ------------------------------------------------------- neverthrow Result
Ok(v) == [thrown |-> FALSE, isOk |-> TRUE, value |-> v]
Err(e) == [thrown |-> FALSE, isOk |-> FALSE, error |-> e]
\* an exception (rejected promise) that escapes the function
Thrown == [thrown |-> TRUE]
NoResult == Err([type |-> "NONE"])
Kind(r) == IF r.thrown THEN "THROWN" ELSE IF r.isOk THEN "OK" ELSE r.error.type

\* ------------------------------------------------- Code/Hash capability
\* Bun.password.hash: salted one-way hash; the digest is modelled by the
\* value it was computed from, which only verifySecureHash looks at.
secureHash(value, salt) == [alg |-> "argon2id", salt |-> salt, digest |-> value]

\* a string that is no password hash (the tests pass the plain code)
plainString(value) == [alg |-> "none", salt |-> "", digest |-> value]

\* Bun.password.verify: rejects for a string that is no supported hash
verifySecureHash(plainValue, hashedValue) ==
  IF hashedValue.alg = "argon2id"
  THEN [thrown |-> FALSE, value |-> hashedValue.digest = plainValue]
  ELSE [thrown |-> TRUE, value |-> FALSE]

\* the tests' verifyAuthCodeFn: input === hash
mockEquals(input, hash) ==
  [thrown |-> FALSE, value |-> hash.alg = "none" /\ hash.digest = input]

\* a verify capability that fails for infrastructure reasons
rejecting(input, hash) == [thrown |-> TRUE, value |-> FALSE]

ApplyVerifyFn(fn, input, hash) ==
  CASE fn = "verifySecureHash" -> verifySecureHash(input, hash)
    [] fn = "mockEquals" -> mockEquals(input, hash)
    [] fn = "rejecting" -> rejecting(input, hash)

\* --------------------------------------------------------------- guards
\* variant: the comparison of the clock with expiresAt is inverted
checkAuthCodeExpiration_inverted(unverifiedAuth, clock) ==
  IF clock < unverifiedAuth.expiresAt
  THEN Err([type |-> "AUTH_CODE_EXPIRED"])
  ELSE Ok(unverifiedAuth)

\* variant: the instant expiresAt itself already counts as expired
checkAuthCodeExpiration_inclusive(unverifiedAuth, clock) ==
  IF clock >= unverifiedAuth.expiresAt
  THEN Err([type |-> "AUTH_CODE_EXPIRED"])
  ELSE Ok(unverifiedAuth)

checkAuthCodeExpiration(unverifiedAuth, clock) ==
  IF clock > unverifiedAuth.expiresAt
  THEN Err([type |-> "AUTH_CODE_EXPIRED"])
  ELSE Ok(unverifiedAuth)

\* variant: the limit is compared with > instead of >=
checkMaxAttemptsReached_strict(unverifiedAuth, maxAttemptsArg, clock) ==
  LET maxAttempts == IF maxAttemptsArg = << >> THEN DefaultMaxAttempts
                     ELSE maxAttemptsArg[1]
  IN IF unverifiedAuth.attempts > maxAttempts
     THEN Err([type |-> "ACCOUNT_LOCKED", unlockAt |-> clock + LockMinutes])
     ELSE Ok(unverifiedAuth)

\* variant: the lock lifts once 10 minutes have passed since the record was made
checkMaxAttemptsReached_lifting(unverifiedAuth, maxAttemptsArg, clock) ==
  LET maxAttempts == IF maxAttemptsArg = << >> THEN DefaultMaxAttempts
                     ELSE maxAttemptsArg[1]
  IN IF unverifiedAuth.attempts >= maxAttempts
        /\ clock <= unverifiedAuth.createdAt + LockMinutes
     THEN Err([type |-> "ACCOUNT_LOCKED", unlockAt |-> clock + LockMinutes])
     ELSE Ok(unverifiedAuth)

\* variant: the lock is counted from the record's expiresAt
checkMaxAttemptsReached_fromExpiry(unverifiedAuth, maxAttemptsArg, clock) ==
  LET maxAttempts == IF maxAttemptsArg = << >> THEN DefaultMaxAttempts
                     ELSE maxAttemptsArg[1]
  IN IF unverifiedAuth.attempts >= maxAttempts
     THEN Err([type |-> "ACCOUNT_LOCKED",
               unlockAt |-> unverifiedAuth.expiresAt + LockMinutes])
     ELSE Ok(unverifiedAuth)

\* variant: a passing guard hands back the record with the attempt counted
checkMaxAttemptsReached_counting(unverifiedAuth, maxAttemptsArg, clock) ==
  LET maxAttempts == IF maxAttemptsArg = << >> THEN DefaultMaxAttempts
                     ELSE maxAttemptsArg[1]
  IN IF unverifiedAuth.attempts >= maxAttempts
     THEN Err([type |-> "ACCOUNT_LOCKED", unlockAt |-> clock + LockMinutes])
     ELSE Ok([unverifiedAuth EXCEPT !.attempts = @ + 1])

checkMaxAttemptsReached(unverifiedAuth, maxAttemptsArg, clock) ==
  LET maxAttempts == IF maxAttemptsArg = << >> THEN DefaultMaxAttempts
                     ELSE maxAttemptsArg[1]
  IN IF unverifiedAuth.attempts >= maxAttempts
     THEN Err([type |-> "ACCOUNT_LOCKED", unlockAt |-> clock + LockMinutes])
     ELSE Ok(unverifiedAuth)

\* variant: remainingAttempts does not count the failing attempt itself
verifyAuthCode_offByOne(inputAuthCode, hashedCorrectAuthCode, currentAttempts, options) ==
  LET maxAttempts == IF options.maxAttempts = << >> \/ options.maxAttempts[1] = 0
                     THEN VerifyDefaultMaxAttempts
                     ELSE options.maxAttempts[1]
      verifyAuthCodeFn == IF options.verifyAuthCodeFn = << >>
                          THEN "verifySecureHash"
                          ELSE options.verifyAuthCodeFn[1]
      isEqual == ApplyVerifyFn(verifyAuthCodeFn, inputAuthCode, hashedCorrectAuthCode)
  IN IF isEqual.thrown THEN Thrown
     ELSE IF ~isEqual.value
     THEN Err([type |-> "INVALID_AUTH_CODE",
               remainingAttempts |-> maxAttempts - currentAttempts])
     ELSE Ok(TRUE)

\* variant: verifyAuthCode refuses to compare once the limit is reached
verifyAuthCode_guarded(inputAuthCode, hashedCorrectAuthCode, currentAttempts, options) ==
  LET maxAttempts == IF options.maxAttempts = << >> \/ options.maxAttempts[1] = 0
                     THEN VerifyDefaultMaxAttempts
                     ELSE options.maxAttempts[1]
      verifyAuthCodeFn == IF options.verifyAuthCodeFn = << >>
                          THEN "verifySecureHash"
                          ELSE options.verifyAuthCodeFn[1]
      isEqual == ApplyVerifyFn(verifyAuthCodeFn, inputAuthCode, hashedCorrectAuthCode)
  IN IF currentAttempts >= maxAttempts
     THEN Err([type |-> "INVALID_AUTH_CODE", remainingAttempts |-> 0])
     ELSE IF isEqual.thrown THEN Thrown
     ELSE IF ~isEqual.value
     THEN Err([type |-> "INVALID_AUTH_CODE",
               remainingAttempts |-> maxAttempts - (currentAttempts + 1)])
     ELSE Ok(TRUE)

\* variant: the outcome of the comparison is read the wrong way round
verifyAuthCode_inverted(inputAuthCode, hashedCorrectAuthCode, currentAttempts, options) ==
  LET maxAttempts == IF options.maxAttempts = << >> \/ options.maxAttempts[1] = 0
                     THEN VerifyDefaultMaxAttempts
                     ELSE options.maxAttempts[1]
      verifyAuthCodeFn == IF options.verifyAuthCodeFn = << >>
                          THEN "verifySecureHash"
                          ELSE options.verifyAuthCodeFn[1]
      isEqual == ApplyVerifyFn(verifyAuthCodeFn, inputAuthCode, hashedCorrectAuthCode)
  IN IF isEqual.thrown THEN Thrown
     ELSE IF isEqual.value
     THEN Err([type |-> "INVALID_AUTH_CODE",
               remainingAttempts |-> maxAttempts - (currentAttempts + 1)])
     ELSE Ok(TRUE)

verifyAuthCode(inputAuthCode, hashedCorrectAuthCode, currentAttempts, options) ==
  LET maxAttempts == IF options.maxAttempts = << >> \/ options.maxAttempts[1] = 0
                     THEN VerifyDefaultMaxAttempts
                     ELSE options.maxAttempts[1]
      verifyAuthCodeFn == IF options.verifyAuthCodeFn = << >>
                          THEN "verifySecureHash"
                          ELSE options.verifyAuthCodeFn[1]
      isEqual == ApplyVerifyFn(verifyAuthCodeFn, inputAuthCode, hashedCorrectAuthCode)
  IN IF isEqual.thrown THEN Thrown
     ELSE IF ~isEqual.value
     THEN Err([type |-> "INVALID_AUTH_CODE",
               remainingAttempts |-> maxAttempts - (currentAttempts + 1)])
     ELSE Ok(TRUE)

\* the earlier, plaintext-comparing variant; maxAttempts is a default parameter
verifyAuthCodeMatch(inputAuthCode, correctAuthCode, currentAttempts, maxAttemptsArg) ==
  LET maxAttempts == IF maxAttemptsArg = << >> THEN DefaultMaxAttempts
                     ELSE maxAttemptsArg[1]
  IN IF inputAuthCode # correctAuthCode
     THEN Err([type |-> "INVALID_AUTH_CODE",
               remainingAttempts |-> maxAttempts - (currentAttempts + 1)])
     ELSE Ok(TRUE)

\* The objects a caller passed, as they are when the call has returned: the
\* bodies of the three functions assign to no property of a parameter.
ArgAfterCheckAuthCodeExpiration(unverifiedAuth) == unverifiedAuth
ArgAfterCheckMaxAttemptsReached(unverifiedAuth) == unverifiedAuth
ArgAfterVerifyAuthCode(options) == options

\* variant: verifiedAt is not read from the clock
createVerifiedAuth_epoch(info, clock) == [info |-> info, verifiedAt |-> 0]

createVerifiedAuth(info, clock) == [info |-> info, verifiedAt |-> clock]

\* ------------------------------------------------------------- issuance
\* A string is the sequence of its characters: 0..9 stand for the digits
\* '0'..'9', NonDigit for any other character.
NonDigit == 10

\* Number.prototype.toString of a non-negative integer
RECURSIVE numberToString(_)
numberToString(n) == IF n < 10 THEN <<n>> ELSE Append(numberToString(n \div 10), n % 10)

\* variant: the offset 100000 is missing
generateAuthCode_noOffset(random) ==
  numberToString((random * 900000) \div RandomSteps)

\* Math.random() returned random / RandomSteps, a value in [0, 1)
generateAuthCode(random) ==
  numberToString(100000 + (random * 900000) \div RandomSteps)

\* variant: only the length is checked
authCodeSchema_lengthOnly(value) == Len(value) = 6

\* authCodeSchema: z.string().length(6).regex(/^\d+$/)
authCodeSchema(value) == Len(value) = 6 /\ \A i \in 1..Len(value) : value[i] \in 0..9

\* a hash function's return value that is no string
notAString == [alg |-> "notAString", salt |-> "", digest |-> << >>]

\* hashedAuthCodeSchema: z.string()
hashedAuthCodeSchema(value) == value.alg # "notAString"

\* the tests' hashFn: `hashed-${value}`
mockHashFn(value) == [alg |-> "hashed-", salt |-> "", digest |-> value]

\* hashFn is the injected hash function, << >> when omitted; salt is the
\* salt Bun.password.hash draws
ApplyHashFn(hashFn, value, salt) ==
  CASE hashFn = << >> -> [thrown |-> FALSE, value |-> secureHash(value, salt)]
    [] hashFn = <<"secureHash">> -> [thrown |-> FALSE, value |-> secureHash(value, salt)]
    [] hashFn = <<"mockHashFn">> -> [thrown |-> FALSE, value |-> mockHashFn(value)]
    [] hashFn = <<"nonString">> -> [thrown |-> FALSE, value |-> notAString]
    [] hashFn = <<"rejecting">> -> [thrown |-> TRUE, value |-> notAString]

\* generateAuthCodeFn is << >> when omitted, else <<g>> with g.throws telling
\* whether the generator throws and g.returns the string it returns
ApplyGenerator(generateAuthCodeFn, random) ==
  IF generateAuthCodeFn = << >>
  THEN [throws |-> FALSE, returns |-> generateAuthCode(random)]
  ELSE generateAuthCodeFn[1]

\* variant: the default hash is used whatever hash function is injected
generateAuthCodeInfo_ownHash(options, env) ==
  LET expirationMinutes == IF options.expirationMinutes = << >>
                              \/ options.expirationMinutes[1] = 0
                           THEN DefaultExpirationMinutes
                           ELSE options.expirationMinutes[1]
      generated == ApplyGenerator(options.generateAuthCodeFn, env.random)
      hashed == ApplyHashFn(<<"secureHash">>, generated.returns, env.salt)
  IN IF generated.throws THEN Thrown
     ELSE IF ~authCodeSchema(generated.returns)
     THEN Err([type |-> "AUTH_CODE_GENERATION_ERROR", message |-> "format"])
     ELSE IF hashed.thrown
     THEN Err([type |-> "AUTH_CODE_GENERATION_ERROR", message |-> "hash"])
     ELSE IF ~hashedAuthCodeSchema(hashed.value)
     THEN Err([type |-> "AUTH_CODE_GENERATION_ERROR", message |-> "hash"])
     ELSE Ok([authCode |-> generated.returns,
              hashedAuthCode |-> hashed.value,
              expiresAt |-> env.clock + expirationMinutes,
              attempts |-> 0])

\* variant: the plain code is kept where the hash belongs
generateAuthCodeInfo_noHash(options, env) ==
  LET expirationMinutes == IF options.expirationMinutes = << >>
                              \/ options.expirationMinutes[1] = 0
                           THEN DefaultExpirationMinutes
                           ELSE options.expirationMinutes[1]
      generated == ApplyGenerator(options.generateAuthCodeFn, env.random)
  IN IF generated.throws THEN Thrown
     ELSE IF ~authCodeSchema(generated.returns)
     THEN Err([type |-> "AUTH_CODE_GENERATION_ERROR", message |-> "format"])
     ELSE Ok([authCode |-> generated.returns,
              hashedAuthCode |-> plainString(generated.returns),
              expiresAt |-> env.clock + expirationMinutes,
              attempts |-> 0])

\* options: generateAuthCodeFn, hashFn, expirationMinutes, each << >> when
\* omitted; env: what the call draws from its environment, random (the random
\* source), salt, newId (createId) and clock (new Date())
generateAuthCodeInfo(options, env) ==
  LET expirationMinutes == IF options.expirationMinutes = << >>
                              \/ options.expirationMinutes[1] = 0
                           THEN DefaultExpirationMinutes
                           ELSE options.expirationMinutes[1]
      \* the generator is called outside any try block
      generated == ApplyGenerator(options.generateAuthCodeFn, env.random)
      hashed == ApplyHashFn(options.hashFn, generated.returns, env.salt)
  IN IF generated.throws THEN Thrown
     ELSE IF ~authCodeSchema(generated.returns)
     THEN Err([type |-> "AUTH_CODE_GENERATION_ERROR", message |-> "format"])
     ELSE IF hashed.thrown
     THEN Err([type |-> "AUTH_CODE_GENERATION_ERROR", message |-> "hash"])
     ELSE IF ~hashedAuthCodeSchema(hashed.value)
     THEN Err([type |-> "AUTH_CODE_GENERATION_ERROR", message |-> "hash"])
     ELSE Ok([authCode |-> generated.returns,
              hashedAuthCode |-> hashed.value,
              expiresAt |-> env.clock + expirationMinutes,
              attempts |-> 0])

\* variant: the code is hashed before its format is checked
hashGeneratorCalls_beforeCheck(options, env) ==
  LET generated == ApplyGenerator(options.generateAuthCodeFn, env.random)
  IN IF generated.throws THEN << >> ELSE <<generated.returns>>

\* the arguments of the calls generateAuthCodeInfo makes to the hash
\* function, in order: one call, placed after the format check returned
hashGeneratorCalls(options, env) ==
  LET generated == ApplyGenerator(options.generateAuthCodeFn, env.random)
  IN IF generated.throws THEN << >>
     ELSE IF ~authCodeSchema(generated.returns) THEN << >>
     ELSE <<generated.returns>>

\* variant: every call hands out the same id
createId_fixed(calls) == 1

\* Bun.randomUUIDv7(): the timestamp, a counter kept by the process and
\* random bits; the id stands for the (timestamp, counter) part, which differs
\* between any two calls of one process. calls: ids handed out before.
createId(calls) == calls + 1

\* variant: the record does not start with the attempts of the code info
createUnverifiedAuth_lowerAttempts(validatedAuth, options, env) ==
  LET authCodeInfoResult == generateAuthCodeInfo(options, env)
  IN IF authCodeInfoResult.thrown THEN Thrown
     ELSE IF ~authCodeInfoResult.isOk
     THEN Err(authCodeInfoResult.error)
     ELSE Ok([info |-> validatedAuth,
              authCode |-> authCodeInfoResult.value.authCode,
              hashedAuthCode |-> authCodeInfoResult.value.hashedAuthCode,
              expiresAt |-> authCodeInfoResult.value.expiresAt,
              attempts |-> authCodeInfoResult.value.attempts - 1,
              id |-> env.newId,
              createdAt |-> env.clock])

\* the two new Date() of one issuance read the same minute
createUnverifiedAuth(validatedAuth, options, env) ==
  LET authCodeInfoResult == generateAuthCodeInfo(options, env)
  IN IF authCodeInfoResult.thrown THEN Thrown
     ELSE IF ~authCodeInfoResult.isOk
     THEN Err(authCodeInfoResult.error)
     ELSE Ok([info |-> validatedAuth,
              authCode |-> authCodeInfoResult.value.authCode,
              hashedAuthCode |-> authCodeInfoResult.value.hashedAuthCode,
              expiresAt |-> authCodeInfoResult.value.expiresAt,
              attempts |-> authCodeInfoResult.value.attempts,
              id |-> env.newId,
              createdAt |-> env.clock])

\* --------------------------------------------------------- validation
\* An address is the sequence of the pieces email.split('@') gives, and the
\* length of the whole string.
\* pieces the pattern of z.string().email() accepts before the '@'
WellFormedLocals == {"test"}
\* pieces it accepts after the '@' (letter case is ignored by the pattern)
WellFormedDomains == {"example.com", "example.org", "temp-mail.com",
                      "EXAMPLE.ORG", "sub.example.org"}

\* z.string().email()
emailSyntax(email) ==
  /\ Len(email.parts) = 2
  /\ email.parts[1] \in WellFormedLocals
  /\ email.parts[2] \in WellFormedDomains

MaxEmailLength == 255

\* baseIdentifierSchema: z.object({ email: z.string().email().max(255) });
\* the email property is << >> when it is missing or no string
baseIdentifierSchema(value) ==
  /\ value.email # << >>
  /\ emailSyntax(value.email[1])
  /\ value.email[1].length <= MaxEmailLength

validatedAuthSchema(value) == baseIdentifierSchema(value)

prohibitedDomains == {"example.org", "temp-mail.com"}

\* variant: the domain is not looked at
validateAuth_anyDomain(unvalidatedAuth) ==
  IF ~validatedAuthSchema(unvalidatedAuth)
  THEN Err([type |-> "AUTH_VALIDATION_ERROR", message |-> "schema"])
  ELSE Ok([email |-> unvalidatedAuth.email[1]])

validateAuth(unvalidatedAuth) ==
  IF ~validatedAuthSchema(unvalidatedAuth)
  THEN Err([type |-> "AUTH_VALIDATION_ERROR", message |-> "schema"])
  ELSE LET email == unvalidatedAuth.email[1]
           \* email.split('@')[1], << >> when undefined
           domain == IF Len(email.parts) >= 2 THEN <<email.parts[2]>> ELSE << >>
       IN IF domain # << >> /\ domain[1] # "" /\ domain[1] \in prohibitedDomains
          THEN Err([type |-> "AUTH_VALIDATION_ERROR", message |-> "domain"])
          ELSE Ok([email |-> email])

\* the row the store keeps for an UnverifiedAuth (no plaintext code)
StoreRow(u) == [id |-> u.id, info |-> u.info, hashedAuthCode |-> u.hashedAuthCode,
                expiresAt |-> u.expiresAt, attempts |-> u.attempts,
                createdAt |-> u.createdAt]

\* ------------------------------------------------------------- sign-up
\* A name is << >> when it is missing or no string, else <<n>>, a string of
\* n characters.
\* userSchema: z.object({ id: userIdSchema, name: z.string().min(1).max(100) })
userSchema(user) ==
  /\ user.name # << >>
  /\ user.name[1] >= 1
  /\ user.name[1] <= 100

\* newId: the id createId hands out
signUp(params, newId) ==
  LET user == [id |-> newId, name |-> params.name]
  IN IF ~userSchema(user) THEN Err([type |-> "ZodError"]) ELSE Ok(user)

\* variant: the outcome of save is not looked at
SignUpCmdExecute_ignoringSave(params, newId, saveOutcome) ==
  LET result == signUp(params, newId)
  IN IF ~result.isOk
     THEN [res |-> Err([type |-> "Error", message |-> "Failed to signUp"]),
           saveCalls |-> << >>]
     ELSE [res |-> IF saveOutcome = "rejects" THEN Thrown ELSE Ok(result.value),
           saveCalls |-> <<result.value>>]

\* SignUpCmd.execute; saveOutcome is what userRepository.save does with the
\* user: "ok", "err", or "rejects" (the promise rejects). saveCalls: the
\* arguments of the calls of save, in order.
SignUpCmdExecute(params, newId, saveOutcome) ==
  LET result == signUp(params, newId)
  IN IF ~result.isOk
     THEN [res |-> Err([type |-> "Error", message |-> "Failed to signUp"]),
           saveCalls |-> << >>]
     ELSE [res |-> CASE saveOutcome = "ok" -> Ok(result.value)
                     [] saveOutcome = "err" ->
                          Err([type |-> "Error", message |-> "Failed to save user"])
                     [] saveOutcome = "rejects" -> Thrown,
           saveCalls |-> <<result.value>>]

\* ---------------------------------------------------------------- state
VARIABLES
  now,          \* wall clock, minutes
  maxAttempts,  \* the maxAttempts argument the caller passes to guard and verify
  store,        \* the store's rows of UnverifiedAuth, << >> before issuance
  delivered,    \* the plaintext code handed to the issuing caller
  retired,      \* the record was promoted to a VerifiedAuth
  verified,     \* the VerifiedAuth records created
  pc,           \* position of each verification attempt
  snap,         \* the record each attempt read from the store
  input,        \* the code each attempt submitted
  result,       \* the last result each attempt surfaced
  hist,         \* per attempt: what happened in it (history)
  comparisons,  \* number of code comparisons performed on the record (history)
  expiredSeen,  \* checkAuthCodeExpiration has failed for the record (history)
  lockedSeen,   \* checkMaxAttemptsReached has failed for the record (history)
  lastFailure,  \* remainingAttempts of the failures so far, latest last (history)
  fnIn,         \* inputs of a direct call of one of the pure functions
  fnOut,        \* its result
  createIdCalls, \* number of ids createId has handed out in this process
  issued,       \* the records direct calls of createUnverifiedAuth returned (history)
  users         \* the users the UserRepository has saved

vars == <<now, maxAttempts, store, delivered, retired, verified, pc, snap, input,
          result, hist, comparisons, expiredSeen, lockedSeen, lastFailure,
          fnIn, fnOut, createIdCalls, issued, users>>

flowVars == <<store, delivered, retired, verified, pc, snap, input, result, hist,
              comparisons, expiredSeen, lockedSeen, lastFailure>>

NoSnap == StoreRow([id |-> 0, info |-> Identifier, hashedAuthCode |-> plainString(<< >>),
                    expiresAt |-> 0, attempts |-> 0, createdAt |-> 0])
\* late: the attempt was submitted after expiresAt; afterExpired: it was
\* submitted after an Expiry Guard had failed for the record; wasExpired: the clock had
\* passed expiresAt when the Expiry Guard ran; expiry, guard: the guards'
\* results; compared: the code comparison was performed; emitted: a
\* VerifiedAuth was created
NoHist == [late |-> FALSE, afterExpired |-> FALSE, wasExpired |-> FALSE, expiry |-> "NONE",
           guard |-> "NONE", compared |-> FALSE, emitted |-> FALSE]
NoFnIn == [attempts |-> 0, expiresAt |-> 0, verifyAuthCodeFn |-> << >>,
           input |-> CorrectCode, hashed |-> plainString(CorrectCode)]
NoFnOut == [fn |-> "none", res |-> NoResult]

InitFlow ==
  /\ store = << >>
  /\ delivered = << >>
  /\ retired = FALSE
  /\ verified = << >>
  /\ pc = [p \in Procs |-> "idle"]
  /\ snap = [p \in Procs |-> NoSnap]
  /\ input = [p \in Procs |-> << >>]
  /\ result = [p \in Procs |-> NoResult]
  /\ hist = [p \in Procs |-> NoHist]
  /\ comparisons = 0
  /\ expiredSeen = FALSE
  /\ lockedSeen = FALSE
  /\ lastFailure = << >>

Init ==
  /\ now = 0
  /\ maxAttempts \in MaxAttemptsOptions
  /\ InitFlow
  /\ fnIn = NoFnIn
  /\ fnOut = NoFnOut
  /\ createIdCalls = 0
  /\ issued = << >>
  /\ users = << >>

\* ---------------------------------------------------------------- clock
Tick ==
  /\ now < MaxTime
  /\ now' = now + 1
  /\ UNCHANGED <<maxAttempts, flowVars, fnIn, fnOut, createIdCalls, issued, users>>

\* ------------------------------------------------- issue and persist
Issue(authCodeValue, expirationOpt, salt) ==
  /\ store = << >>
  /\ LET r == createUnverifiedAuth(Identifier,
                [generateAuthCodeFn |-> <<[throws |-> FALSE, returns |-> authCodeValue]>>,
                 hashFn |-> <<"secureHash">>, expirationMinutes |-> expirationOpt],
                [random |-> 0, salt |-> salt, newId |-> createId(createIdCalls),
                 clock |-> now])
     IN /\ ~r.thrown
        /\ r.isOk
        /\ store' = <<StoreRow(r.value)>>
        /\ delivered' = r.value.authCode
        /\ createIdCalls' = createIdCalls + 1
  /\ UNCHANGED <<now, maxAttempts, retired, verified, pc, snap, input, result, hist,
                 comparisons, expiredSeen, lockedSeen, lastFailure, fnIn, fnOut, issued, users>>

\* ------------------------------------------- one verification attempt
\* find(id): the attempt reads the record
BeginAttempt(p, code) ==
  /\ pc[p] = "idle"
  /\ store # << >>
  /\ ~retired
  /\ snap' = [snap EXCEPT ![p] = store[1]]
  /\ input' = [input EXCEPT ![p] = code]
  /\ result' = [result EXCEPT ![p] = NoResult]
  /\ hist' = [hist EXCEPT ![p] = [NoHist EXCEPT !.late = (now > store[1].expiresAt),
                                                 !.afterExpired = expiredSeen]]
  /\ pc' = [pc EXCEPT ![p] = "expiry"]
  /\ UNCHANGED <<now, maxAttempts, store, delivered, retired, verified, comparisons,
                 expiredSeen, lockedSeen, lastFailure, fnIn, fnOut, createIdCalls, issued, users>>

\* attempts of one record made one after the other
BeginSeq(p, code) ==
  /\ \A q \in Procs \ {p} : pc[q] = "idle"
  /\ BeginAttempt(p, code)

\* attempts that may overlap
BeginConc(p, code) == BeginAttempt(p, code)

ExpiryGuard(p) ==
  /\ pc[p] = "expiry"
  /\ LET r == checkAuthCodeExpiration(snap[p], now)
     IN /\ hist' = [hist EXCEPT ![p].wasExpired = (now > snap[p].expiresAt),
                                 ![p].expiry = Kind(r)]
        /\ IF r.isOk
           THEN /\ pc' = [pc EXCEPT ![p] = "attempts"]
                /\ UNCHANGED <<result, expiredSeen>>
           ELSE /\ pc' = [pc EXCEPT ![p] = "done"]
                /\ result' = [result EXCEPT ![p] = r]
                /\ expiredSeen' = TRUE
  /\ UNCHANGED <<now, maxAttempts, store, delivered, retired, verified, snap, input,
                 comparisons, lockedSeen, lastFailure, fnIn, fnOut, createIdCalls, issued, users>>

AttemptGuard(p) ==
  /\ pc[p] = "attempts"
  /\ LET r == checkMaxAttemptsReached(snap[p], maxAttempts, now)
     IN /\ hist' = [hist EXCEPT ![p].guard = Kind(r)]
        /\ IF r.isOk
           THEN /\ pc' = [pc EXCEPT ![p] = "verify"]
                /\ UNCHANGED <<result, lockedSeen>>
           ELSE /\ pc' = [pc EXCEPT ![p] = "done"]
                /\ result' = [result EXCEPT ![p] = r]
                /\ lockedSeen' = TRUE
  /\ UNCHANGED <<now, maxAttempts, store, delivered, retired, verified, snap, input,
                 comparisons, expiredSeen, lastFailure, fnIn, fnOut, createIdCalls, issued, users>>

Verify(p) ==
  /\ pc[p] = "verify"
  /\ LET r == verifyAuthCode(input[p], snap[p].hashedAuthCode, snap[p].attempts,
                             [maxAttempts |-> maxAttempts, verifyAuthCodeFn |-> << >>])
     IN /\ ~r.thrown
        /\ result' = [result EXCEPT ![p] = r]
        /\ hist' = [hist EXCEPT ![p].compared = TRUE]
        /\ comparisons' = comparisons + 1
        /\ IF r.isOk
           THEN /\ pc' = [pc EXCEPT ![p] = "promote"]
                /\ UNCHANGED lastFailure
           ELSE /\ pc' = [pc EXCEPT ![p] = "increment"]
                /\ lastFailure' = <<r.error.remainingAttempts>>
  /\ UNCHANGED <<now, maxAttempts, store, delivered, retired, verified, snap, input,
                 expiredSeen, lockedSeen, fnIn, fnOut, createIdCalls, issued, users>>

\* incrementAttempts(id): the store adds one to the stored count
IncrementAttempts(p) ==
  /\ pc[p] = "increment"
  /\ store' = [store EXCEPT ![1].attempts = @ + 1]
  /\ pc' = [pc EXCEPT ![p] = "done"]
  /\ UNCHANGED <<now, maxAttempts, delivered, retired, verified, snap, input, result,
                 hist, comparisons, expiredSeen, lockedSeen, lastFailure, fnIn, fnOut, createIdCalls, issued, users>>

\* createVerifiedAuth, then promote(id)
Promote(p) ==
  /\ pc[p] = "promote"
  /\ verified' = Append(verified, createVerifiedAuth(snap[p].info, now))
  /\ retired' = TRUE
  /\ hist' = [hist EXCEPT ![p].emitted = TRUE]
  /\ pc' = [pc EXCEPT ![p] = "done"]
  /\ UNCHANGED <<now, maxAttempts, store, delivered, snap, input, result,
                 comparisons, expiredSeen, lockedSeen, lastFailure, fnIn, fnOut, createIdCalls, issued, users>>

\* the attempt's result has been surfaced to the caller
Return(p) ==
  /\ pc[p] = "done"
  /\ pc' = [pc EXCEPT ![p] = "idle"]
  /\ snap' = [snap EXCEPT ![p] = NoSnap]
  /\ input' = [input EXCEPT ![p] = << >>]
  /\ result' = [result EXCEPT ![p] = NoResult]
  /\ hist' = [hist EXCEPT ![p] = NoHist]
  /\ UNCHANGED <<now, maxAttempts, store, delivered, retired, verified,
                 comparisons, expiredSeen, lockedSeen, lastFailure, fnIn, fnOut, createIdCalls, issued, users>>

Next ==
  \/ Tick
  \/ \E c \in Codes, e \in ExpirationOptions, s \in Salts : Issue(c, e, s)
  \/ \E p \in Procs, c \in Codes : BeginSeq(p, c)
  \/ \E p \in Procs : ExpiryGuard(p)
  \/ \E p \in Procs : AttemptGuard(p)
  \/ \E p \in Procs : Verify(p)
  \/ \E p \in Procs : IncrementAttempts(p)
  \/ \E p \in Procs : Promote(p)
  \/ \E p \in Procs : Return(p)

Spec == Init /\ [][Next]_vars

NextConc ==
  \/ Tick
  \/ \E c \in Codes, e \in ExpirationOptions, s \in Salts : Issue(c, e, s)
  \/ \E p \in Procs, c \in Codes : BeginConc(p, c)
  \/ \E p \in Procs : ExpiryGuard(p)
  \/ \E p \in Procs : AttemptGuard(p)
  \/ \E p \in Procs : Verify(p)
  \/ \E p \in Procs : IncrementAttempts(p)
  \/ \E p \in Procs : Promote(p)
  \/ \E p \in Procs : Return(p)

SpecConc == Init /\ [][NextConc]_vars

\* ------------------------------------- direct calls of the pure functions
HashedValues == {secureHash(c, s) : c \in Codes, s \in Salts}
                  \cup {plainString(c) : c \in Codes}

InitFn ==
  /\ now \in 0..MaxTime
  /\ maxAttempts \in MaxAttemptsOptions
  /\ InitFlow
  /\ fnIn \in [attempts : 0..MaxFnAttempts, expiresAt : 0..MaxTime,
                verifyAuthCodeFn : VerifyFnOptions, input : Codes,
                hashed : HashedValues]
  /\ fnOut = NoFnOut
  /\ createIdCalls = 0
  /\ issued = << >>
  /\ users = << >>

\* the record a direct call is given
FnRecord == [NoSnap EXCEPT !.attempts = fnIn.attempts, !.expiresAt = fnIn.expiresAt,
                           !.hashedAuthCode = fnIn.hashed]

CallCheckAuthCodeExpiration ==
  /\ fnOut' = [fn |-> "checkAuthCodeExpiration",
               res |-> checkAuthCodeExpiration(FnRecord, now),
               after |-> ArgAfterCheckAuthCodeExpiration(FnRecord)]
  /\ UNCHANGED <<now, maxAttempts, flowVars, fnIn, createIdCalls, issued, users>>

CallCheckMaxAttemptsReached ==
  /\ fnOut' = [fn |-> "checkMaxAttemptsReached",
               res |-> checkMaxAttemptsReached(FnRecord, maxAttempts, now),
               after |-> ArgAfterCheckMaxAttemptsReached(FnRecord)]
  /\ UNCHANGED <<now, maxAttempts, flowVars, fnIn, createIdCalls, issued, users>>

CallVerifyAuthCode ==
  /\ fnOut' = [fn |-> "verifyAuthCode",
               res |-> verifyAuthCode(fnIn.input, fnIn.hashed, fnIn.attempts,
                                      [maxAttempts |-> maxAttempts,
                                       verifyAuthCodeFn |-> fnIn.verifyAuthCodeFn]),
               after |-> ArgAfterVerifyAuthCode(
                           [maxAttempts |-> maxAttempts,
                            verifyAuthCodeFn |-> fnIn.verifyAuthCodeFn])]
  /\ UNCHANGED <<now, maxAttempts, flowVars, fnIn, createIdCalls, issued, users>>

\* the correct code given is the one fnIn.hashed was computed from
CallVerifyAuthCodeMatch ==
  /\ fnOut' = [fn |-> "verifyAuthCodeMatch",
               res |-> verifyAuthCodeMatch(fnIn.input, fnIn.hashed.digest,
                                           fnIn.attempts, maxAttempts)]
  /\ UNCHANGED <<now, maxAttempts, flowVars, fnIn, createIdCalls, issued, users>>

NextFn ==
  \/ CallCheckAuthCodeExpiration
  \/ CallCheckMaxAttemptsReached
  \/ CallVerifyAuthCode
  \/ CallVerifyAuthCodeMatch

SpecFn == InitFn /\ [][NextFn]_vars

\* ------------------------------------- direct calls of issuance functions
\* what a custom generator may do
GeneratorOptions ==
  {<< >>,
   <<[throws |-> TRUE, returns |-> << >>]>>,
   <<[throws |-> FALSE, returns |-> CorrectCode]>>,
   <<[throws |-> FALSE, returns |-> <<1, 2, 3, 4, 5>>]>>,
   <<[throws |-> FALSE, returns |-> <<1, 2, 3, 4, 5, NonDigit>>]>>,
   <<[throws |-> FALSE, returns |-> <<1, 2, 3, 4, 5, 6, 7>>]>>}

HashFnOptions == {<< >>, <<"mockHashFn">>, <<"nonString">>, <<"rejecting">>}

IssueExpirationOptions ==
  {<< >>} \cup {<<n>> : n \in (0 - MaxExpirationGiven)..MaxExpirationGiven}

EmailParts ==
  {<<"test", "example.com">>, <<"test", "example.org">>,
   <<"test", "temp-mail.com">>, <<"test", "EXAMPLE.ORG">>,
   <<"test", "sub.example.org">>, <<"not-an-email">>, <<"test", "nodot">>,
   <<"", "example.com">>, <<"test", "">>,
   <<"test", "example.org", "example.com">>}

EmailLengths == {16, MaxEmailLength, MaxEmailLength + 1}

UnvalidatedAuths ==
  {[email |-> << >>]}
    \cup {[email |-> <<[parts |-> p, length |-> n]>>] : p \in EmailParts, n \in EmailLengths}

\* validated identifiers records are issued for
IssueIdentifiers == {Identifier, [email |-> "other@example.com"]}

TestAddress == [email |-> <<[parts |-> <<"test", "example.com">>, length |-> 16]>>]

InitIssue ==
  /\ now \in 0..MaxTime
  /\ maxAttempts = << >>
  /\ InitFlow
  /\ fnIn \in [generateAuthCodeFn : GeneratorOptions, hashFn : HashFnOptions,
                expirationMinutes : IssueExpirationOptions,
                random : 0..(RandomSteps - 1), salt : Salts,
                unvalidatedAuth : {TestAddress}]
              \cup [generateAuthCodeFn : {<< >>}, hashFn : {<< >>},
                    expirationMinutes : {<< >>}, random : {0}, salt : Salts,
                    unvalidatedAuth : UnvalidatedAuths]
  /\ fnOut = NoFnOut
  /\ createIdCalls = 0
  /\ issued = << >>
  /\ users = << >>

CallValidateAuth ==
  /\ fnOut' = [fn |-> "validateAuth", res |-> validateAuth(fnIn.unvalidatedAuth)]
  /\ UNCHANGED <<now, maxAttempts, flowVars, fnIn, createIdCalls, issued, users>>

\* the string returned is kept in the value field
CallGenerateAuthCode ==
  /\ fnOut' = [fn |-> "generateAuthCode",
               res |-> [thrown |-> FALSE, isOk |-> TRUE,
                        value |-> generateAuthCode(fnIn.random)]]
  /\ UNCHANGED <<now, maxAttempts, flowVars, fnIn, createIdCalls, issued, users>>

\* createId is reached only when generateAuthCodeInfo has succeeded
CallCreateUnverifiedAuth(validatedAuth) ==
  /\ createIdCalls < MaxIssued
  /\ LET r == createUnverifiedAuth(validatedAuth,
                [generateAuthCodeFn |-> fnIn.generateAuthCodeFn,
                 hashFn |-> fnIn.hashFn,
                 expirationMinutes |-> fnIn.expirationMinutes],
                [random |-> fnIn.random, salt |-> fnIn.salt,
                 newId |-> createId(createIdCalls), clock |-> now])
     IN /\ fnOut' = [fn |-> "createUnverifiedAuth", res |-> r,
                      hashCalls |-> hashGeneratorCalls(
                        [generateAuthCodeFn |-> fnIn.generateAuthCodeFn,
                         hashFn |-> fnIn.hashFn,
                         expirationMinutes |-> fnIn.expirationMinutes],
                        [random |-> fnIn.random, salt |-> fnIn.salt,
                         newId |-> createId(createIdCalls), clock |-> now])]
        /\ IF Kind(r) = "OK"
           THEN /\ createIdCalls' = createIdCalls + 1
                /\ issued' = Append(issued, [id |-> r.value.id, info |-> r.value.info])
           ELSE UNCHANGED <<createIdCalls, issued>>
  /\ UNCHANGED <<now, maxAttempts, flowVars, fnIn, users>>

\* createVerifiedAuth for the identifier validateAuth has accepted; the
\* record returned is kept in the value field
CallCreateVerifiedAuth ==
  /\ Kind(validateAuth(fnIn.unvalidatedAuth)) = "OK"
  /\ fnOut' = [fn |-> "createVerifiedAuth",
               res |-> [thrown |-> FALSE, isOk |-> TRUE,
                        value |-> createVerifiedAuth(
                                    validateAuth(fnIn.unvalidatedAuth).value, now)]]
  /\ UNCHANGED <<now, maxAttempts, flowVars, fnIn, createIdCalls, issued, users>>

NextIssue ==
  \/ CallValidateAuth
  \/ CallGenerateAuthCode
  \/ \E v \in IssueIdentifiers : CallCreateUnverifiedAuth(v)
  \/ CallCreateVerifiedAuth

SpecIssue == InitIssue /\ [][NextIssue]_vars

\* ------------------------- the Attempt Guard called again as time passes
InitLock ==
  /\ now = 0
  /\ maxAttempts \in MaxAttemptsOptions
  /\ InitFlow
  /\ fnIn \in {[NoFnIn EXCEPT !.attempts = a, !.expiresAt = e] :
                 a \in 0..MaxFnAttempts, e \in 0..MaxTime}
  /\ fnOut = NoFnOut
  /\ createIdCalls = 0
  /\ issued = << >>
  /\ users = << >>

Elapse ==
  /\ now < MaxLockTime
  /\ now' = now + 1
  /\ UNCHANGED <<maxAttempts, flowVars, fnIn, fnOut, createIdCalls, issued, users>>

\* at: the time of the call; earlier: the unlockAt the call before it returned
CallCheckMaxAttemptsReachedAgain ==
  /\ fnOut' = [fn |-> "checkMaxAttemptsReached",
               res |-> checkMaxAttemptsReached(FnRecord, maxAttempts, now),
               at |-> now,
               earlier |-> IF Kind(fnOut.res) = "ACCOUNT_LOCKED"
                           THEN <<fnOut.res.error.unlockAt>> ELSE << >>]
  /\ UNCHANGED <<now, maxAttempts, flowVars, fnIn, createIdCalls, issued, users>>

NextLock ==
  \/ Elapse
  \/ CallCheckMaxAttemptsReachedAgain

SpecLock == InitLock /\ [][NextLock]_vars

\* ------------------------------------------------ calls of SignUpCmd
Names == {<< >>, <<0>>, <<1>>, <<100>>, <<101>>}
SaveOutcomes == {"ok", "err", "rejects"}

InitSignUp ==
  /\ now = 0
  /\ maxAttempts = << >>
  /\ InitFlow
  /\ fnIn = NoFnIn
  /\ fnOut = NoFnOut
  /\ createIdCalls = 0
  /\ issued = << >>
  /\ users = << >>

\* signUp calls createId whether or not the user turns out valid
CallSignUpCmdExecute(params, saveOutcome) ==
  /\ createIdCalls < MaxSignUps
  /\ LET r == SignUpCmdExecute(params, createId(createIdCalls), saveOutcome)
     IN /\ fnOut' = [fn |-> "SignUpCmd.execute", params |-> params,
                      saveOutcome |-> saveOutcome, res |-> r.res,
                      saveCalls |-> r.saveCalls]
        /\ users' = IF r.saveCalls # << >> /\ saveOutcome = "ok"
                    THEN Append(users, r.saveCalls[1]) ELSE users
  /\ createIdCalls' = createIdCalls + 1
  /\ UNCHANGED <<now, maxAttempts, flowVars, fnIn, issued>>

NextSignUp ==
  \E n \in Names, o \in SaveOutcomes : CallSignUpCmdExecute([name |-> n], o)

SpecSignUp == InitSignUp /\ [][NextSignUp]_vars

TypeOK ==
  /\ now \in 0..MaxTime
  /\ Len(store) <= 1
  /\ comparisons \in Nat

\* ================================================================ claims
\* the attempt limit as the specification states it: the value passed, 5 when
\* it is omitted
SpecMaxAttempts == IF maxAttempts = << >> THEN 5 ELSE maxAttempts[1]

\* the attempt has passed the Attempt Guard
PastGuard(p) == hist[p].guard = "OK"

\* C1 (as stated): at most maxAttempts code comparisons are performed on a
\* record, and every attempt made once attempts >= maxAttempts ends in
\* ACCOUNT_LOCKED without reaching the comparison.
C1_AsStated ==
  /\ comparisons <= SpecMaxAttempts
  /\ \A p \in Procs :
       (pc[p] = "done" /\ snap[p].attempts >= SpecMaxAttempts)
         => (~hist[p].compared /\ Kind(result[p]) = "ACCOUNT_LOCKED")

\* C1 (amended): at most maxAttempts code comparisons are performed on a
\* record, and every attempt made once attempts >= maxAttempts ends without
\* reaching the comparison: in ACCOUNT_LOCKED when the Expiry Guard passed, in
\* AUTH_CODE_EXPIRED when the record had also expired.
C1_ComparisonsBounded ==
  /\ comparisons <= SpecMaxAttempts
  /\ \A p \in Procs :
       (pc[p] \in {"verify", "increment", "promote"} \/ hist[p].compared)
         => snap[p].attempts < SpecMaxAttempts
  /\ \A p \in Procs :
       (pc[p] = "done" /\ snap[p].attempts >= SpecMaxAttempts)
         => /\ ~hist[p].compared
            /\ Kind(result[p]) = (IF hist[p].wasExpired THEN "AUTH_CODE_EXPIRED"
                                  ELSE "ACCOUNT_LOCKED")

\* C1 witness: the limit of comparisons has been used up and a further
\* attempt ended in ACCOUNT_LOCKED without comparing
C1_Witness ==
  /\ SpecMaxAttempts >= 2
  /\ comparisons = SpecMaxAttempts
  /\ \E p \in Procs : /\ pc[p] = "done"
                      /\ Kind(result[p]) = "ACCOUNT_LOCKED"
                      /\ ~hist[p].compared

C3_VerifiedOnlyThroughGuards ==
  \A p \in Procs :
    (pc[p] = "promote" \/ hist[p].emitted) =>
      /\ hist[p].expiry = "OK" /\ ~hist[p].wasExpired
      /\ hist[p].guard = "OK" /\ snap[p].attempts < SpecMaxAttempts
      /\ Kind(result[p]) = "OK" /\ input[p] = delivered
      /\ ~hist[p].late

\* C3 witness: a VerifiedAuth was created after earlier failed attempts
C3_Witness ==
  /\ Len(verified) = 1
  /\ \E p \in Procs : hist[p].emitted /\ snap[p].attempts >= 1

\* C4: the first failing guard decides the error: an expired record with
\* attempts >= maxAttempts yields AUTH_CODE_EXPIRED; a record that is not
\* expired, has attempts >= maxAttempts and is given a wrong code yields
\* ACCOUNT_LOCKED, never INVALID_AUTH_CODE.
C4_GuardOrder ==
  \A p \in Procs :
    (pc[p] = "done" /\ snap[p].attempts >= SpecMaxAttempts) =>
      /\ hist[p].wasExpired => Kind(result[p]) = "AUTH_CODE_EXPIRED"
      /\ (~hist[p].wasExpired /\ input[p] # delivered)
           => Kind(result[p]) = "ACCOUNT_LOCKED"

\* C4 witness: an expired record at the limit surfaced AUTH_CODE_EXPIRED
C4_Witness ==
  \E p \in Procs :
    /\ pc[p] = "done" /\ hist[p].wasExpired
    /\ SpecMaxAttempts >= 1 /\ snap[p].attempts >= SpecMaxAttempts
    /\ Kind(result[p]) = "AUTH_CODE_EXPIRED"

\* C5: checkMaxAttemptsReached fails with ACCOUNT_LOCKED exactly when
\* attempts >= maxAttempts (5 when omitted) and returns ok otherwise.
C5_AttemptGuard ==
  fnOut.fn = "checkMaxAttemptsReached" =>
    /\ Kind(fnOut.res) = "ACCOUNT_LOCKED" <=> fnIn.attempts >= SpecMaxAttempts
    /\ Kind(fnOut.res) = "OK" <=> fnIn.attempts < SpecMaxAttempts
    /\ fnIn.attempts = SpecMaxAttempts - 1 => Kind(fnOut.res) = "OK"
    /\ fnIn.attempts = SpecMaxAttempts => Kind(fnOut.res) = "ACCOUNT_LOCKED"

\* C5 witness: with maxAttempts omitted, attempts = 5 is locked
C5_Witness ==
  /\ fnOut.fn = "checkMaxAttemptsReached"
  /\ maxAttempts = << >> /\ fnIn.attempts = 5
  /\ Kind(fnOut.res) = "ACCOUNT_LOCKED"

\* C6: checkAuthCodeExpiration fails with AUTH_CODE_EXPIRED exactly when the
\* clock is strictly after expiresAt; at expiresAt and before it returns ok.
C6_ExpiryGuard ==
  fnOut.fn = "checkAuthCodeExpiration" =>
    /\ Kind(fnOut.res) = "AUTH_CODE_EXPIRED" <=> now > fnIn.expiresAt
    /\ Kind(fnOut.res) = "OK" <=> now <= fnIn.expiresAt

\* C6 witness: a call at the instant expiresAt succeeded
C6_Witness ==
  /\ fnOut.fn = "checkAuthCodeExpiration"
  /\ now = fnIn.expiresAt /\ now > 0
  /\ Kind(fnOut.res) = "OK"

\* C7: once checkAuthCodeExpiration has failed for the record it fails at
\* every later time, and no attempt submitted after that failure creates a
\* VerifiedAuth or gets past the Expiry Guard.
C7_ExpiryTerminal ==
  /\ expiredSeen =>
       /\ store # << >>
       /\ Kind(checkAuthCodeExpiration(store[1], now)) = "AUTH_CODE_EXPIRED"
  /\ \A p \in Procs :
       hist[p].afterExpired =>
         /\ pc[p] \in {"expiry", "done"}
         /\ ~hist[p].emitted
         /\ pc[p] = "done" => Kind(result[p]) = "AUTH_CODE_EXPIRED"

\* C7 witness: an attempt with the issued code, submitted after an earlier
\* expiry failure, ended in AUTH_CODE_EXPIRED
C7_Witness ==
  \E p \in Procs :
    /\ hist[p].afterExpired /\ pc[p] = "done"
    /\ input[p] = delivered
    /\ Kind(result[p]) = "AUTH_CODE_EXPIRED"

\* C8: on a mismatch verifyAuthCode returns INVALID_AUTH_CODE with
\* remainingAttempts = maxAttempts - (currentAttempts + 1), maxAttempts being
\* 5 when omitted.
C8_RemainingAttempts ==
  (fnOut.fn = "verifyAuthCode" /\ Kind(fnOut.res) = "INVALID_AUTH_CODE") =>
    fnOut.res.error.remainingAttempts = SpecMaxAttempts - (fnIn.attempts + 1)

\* C9: a failed verification at attempts = maxAttempts - 1 returns
\* INVALID_AUTH_CODE with remainingAttempts = 0; ACCOUNT_LOCKED is returned
\* only once the store holds attempts >= maxAttempts, it is returned by the
\* guard call that follows the recorded increment, and remainingAttempts = 0
\* is reported exactly by the failure at attempts = maxAttempts - 1, the last
\* one before the first lock.
C9_LockOnNextCall ==
  /\ \A p \in Procs :
       (hist[p].compared /\ input[p] # delivered) =>
         /\ Kind(result[p]) = "INVALID_AUTH_CODE"
         /\ result[p].error.remainingAttempts = 0
              <=> snap[p].attempts = SpecMaxAttempts - 1
  /\ lockedSeen =>
       /\ store[1].attempts >= SpecMaxAttempts
       /\ SpecMaxAttempts > 0 => lastFailure = <<0>>
  /\ (lastFailure = <<0>> /\ \A p \in Procs : pc[p] # "increment") =>
       Kind(checkMaxAttemptsReached(store[1], maxAttempts, now)) = "ACCOUNT_LOCKED"
  /\ (lastFailure # <<0>> /\ store # << >>) =>
       Kind(checkMaxAttemptsReached(store[1], maxAttempts, now))
         = (IF SpecMaxAttempts = 0 THEN "ACCOUNT_LOCKED" ELSE "OK")

\* C9 witness: the failure at attempts = maxAttempts - 1 reported 0 and was
\* no lock; the store has recorded it
C9_Witness ==
  /\ ~lockedSeen /\ lastFailure = <<0>> /\ SpecMaxAttempts >= 2
  /\ \E p \in Procs : /\ pc[p] = "done"
                      /\ Kind(result[p]) = "INVALID_AUTH_CODE"
                      /\ result[p].error.remainingAttempts = 0
                      /\ store[1].attempts = SpecMaxAttempts

\* C10: the result of verifyAuthCode is decided by the injected verify
\* capability alone: ok when it reports a match, INVALID_AUTH_CODE when it
\* reports a mismatch, whatever currentAttempts and maxAttempts are.
FnVerifyCapability ==
  ApplyVerifyFn(IF fnIn.verifyAuthCodeFn = << >> THEN "verifySecureHash"
                ELSE fnIn.verifyAuthCodeFn[1], fnIn.input, fnIn.hashed)

C10_VerifyIgnoresLimit ==
  (fnOut.fn = "verifyAuthCode" /\ ~FnVerifyCapability.thrown) =>
    Kind(fnOut.res) = (IF FnVerifyCapability.value THEN "OK" ELSE "INVALID_AUTH_CODE")

\* C10 witness: a matching code is accepted beyond the limit
C10_Witness ==
  /\ fnOut.fn = "verifyAuthCode"
  /\ fnIn.attempts > SpecMaxAttempts /\ SpecMaxAttempts > 0
  /\ Kind(fnOut.res) = "OK"

\* C11: for a record issued with code c and hashedCode = hash(c),
\* verifyAuthCode(c', hashedCode, ...) with the default verify capability
\* returns ok(true) if and only if c' = c, and INVALID_AUTH_CODE for every
\* other c'. (The hash is collision free in this model.)
C11_MatchIffSameCode ==
  (/\ fnOut.fn = "verifyAuthCode"
   /\ fnIn.verifyAuthCodeFn = << >>
   /\ \E c \in Codes, s \in Salts : fnIn.hashed = secureHash(c, s)) =>
    /\ (fnOut.res = Ok(TRUE)) <=> (fnIn.input = fnIn.hashed.digest)
    /\ (fnIn.input # fnIn.hashed.digest) => Kind(fnOut.res) = "INVALID_AUTH_CODE"

\* C11 witness: both a matching and a non-matching code were judged; this is
\* the non-matching one, judged against the hash of the issued code
C11_Witness ==
  /\ fnOut.fn = "verifyAuthCode"
  /\ fnIn.verifyAuthCodeFn = << >>
  /\ fnIn.hashed = secureHash(CorrectCode, "s1")
  /\ fnIn.input = OtherCode
  /\ Kind(fnOut.res) = "INVALID_AUTH_CODE"

\* C16 (as stated): verifyAuthCode always returns a result value; when the
\* injected verify capability fails, the outcome is the tagged error
\* VERIFICATION_FAILED and no exception escapes.
C16_VerifyFailureWrapped ==
  fnOut.fn = "verifyAuthCode" =>
    /\ ~fnOut.res.thrown
    /\ FnVerifyCapability.thrown => Kind(fnOut.res) = "VERIFICATION_FAILED"

\* a record was returned by a direct call of createUnverifiedAuth
Issued == fnOut.fn = "createUnverifiedAuth" /\ Kind(fnOut.res) = "OK"

\* C12 (as stated): every record returned by createUnverifiedAuth has
\* attempts = 0 and expiresAt = issuance time + expirationMinutes for every
\* expirationMinutes the caller supplies, issuance time + 30 when it is omitted.
C12_ExpiresAtAsSupplied ==
  Issued =>
    /\ fnOut.res.value.attempts = 0
    /\ fnOut.res.value.expiresAt =
         now + (IF fnIn.expirationMinutes = << >> THEN 30
                ELSE fnIn.expirationMinutes[1])

\* C13 (as stated): every record returned by createUnverifiedAuth satisfies
\* expiresAt > createdAt, for every expirationMinutes the caller can supply.
C13_ExpiresAfterCreation ==
  Issued => fnOut.res.value.expiresAt > fnOut.res.value.createdAt

\* C14: in every record returned by createUnverifiedAuth, hashedAuthCode is
\* the injected hash function applied to that record's authCode, and with a
\* custom generator authCode is exactly the generator's output.
C14_HashOfOwnCode ==
  Issued =>
    /\ fnOut.res.value.hashedAuthCode =
         ApplyHashFn(fnIn.hashFn, fnOut.res.value.authCode, fnIn.salt).value
    /\ fnIn.generateAuthCodeFn # << >> =>
         fnOut.res.value.authCode = fnIn.generateAuthCodeFn[1].returns

\* C14 witness: a record issued with a custom generator and the tests' hash
C14_Witness ==
  /\ Issued
  /\ fnIn.generateAuthCodeFn = <<[throws |-> FALSE, returns |-> CorrectCode]>>
  /\ fnIn.hashFn = <<"mockHashFn">>
  /\ fnOut.res.value.hashedAuthCode = mockHashFn(CorrectCode)

\* the generator or the hash function of the call fails
IssuanceCapabilityFails ==
  LET generated == ApplyGenerator(fnIn.generateAuthCodeFn, fnIn.random)
  IN \/ generated.throws
     \/ /\ authCodeSchema(generated.returns)
        /\ ApplyHashFn(fnIn.hashFn, generated.returns, fnIn.salt).thrown

\* C15 (as stated): when the code generator or the hash function fails during
\* issuance, createUnverifiedAuth returns an AUTH_CODE_GENERATION_ERROR value,
\* raises no exception and produces no record.
C15_FailureWrapped ==
  (fnOut.fn = "createUnverifiedAuth" /\ IssuanceCapabilityFails) =>
    Kind(fnOut.res) = "AUTH_CODE_GENERATION_ERROR"

AcceptableIdentifier(a) ==
  /\ a.email # << >>
  /\ emailSyntax(a.email[1])
  /\ a.email[1].length <= 255
  /\ a.email[1].parts[2] \notin {"example.org", "temp-mail.com"}

\* C18: validateAuth succeeds exactly for identifiers with valid address
\* syntax, length <= 255 and a domain outside {example.org, temp-mail.com};
\* otherwise it fails with a validation error and returns no identifier.
C18_ValidateExactly ==
  fnOut.fn = "validateAuth" =>
    IF AcceptableIdentifier(fnIn.unvalidatedAuth)
    THEN fnOut.res = Ok([email |-> fnIn.unvalidatedAuth.email[1]])
    ELSE /\ Kind(fnOut.res) = "AUTH_VALIDATION_ERROR"
         /\ "value" \notin DOMAIN fnOut.res

\* C18 witness: a well-formed address of a prohibited domain was refused
C18_Witness ==
  /\ fnOut.fn = "validateAuth"
  /\ fnIn.unvalidatedAuth.email # << >>
  /\ fnIn.unvalidatedAuth.email[1].parts = <<"test", "temp-mail.com">>
  /\ fnIn.unvalidatedAuth.email[1].length = 16
  /\ Kind(fnOut.res) = "AUTH_VALIDATION_ERROR"

\* the number a string of digits denotes
RECURSIVE DigitsValue(_)
DigitsValue(d) ==
  IF d = << >> THEN 0 ELSE 10 * DigitsValue(SubSeq(d, 1, Len(d) - 1)) + d[Len(d)]

\* exactly 6 ASCII digits
SixDigits(c) == Len(c) = 6 /\ \A i \in 1..6 : c[i] \in 0..9

\* C19: every code returned by the default generateAuthCode has length 6,
\* consists only of digits and has a value in [100000, 999999], for every
\* value of the random source in [0, 1).
C19_GeneratedCodeRange ==
  fnOut.fn = "generateAuthCode" =>
    /\ SixDigits(fnOut.res.value)
    /\ DigitsValue(fnOut.res.value) \in 100000..999999

\* C19 witness: the code generated for the largest value of the random source
C19_Witness ==
  /\ fnOut.fn = "generateAuthCode"
  /\ fnIn.random = RandomSteps - 1
  /\ DigitsValue(fnOut.res.value) > 800000

\* C20: every record returned by createUnverifiedAuth carries a code of
\* exactly 6 ASCII digits, also with a custom generator: when the generator
\* returns a string that is not exactly 6 digits, issuance returns
\* AUTH_CODE_GENERATION_ERROR instead of a record.
C20_SixDigitCode ==
  fnOut.fn = "createUnverifiedAuth" =>
    /\ Kind(fnOut.res) = "OK" => SixDigits(fnOut.res.value.authCode)
    /\ (/\ fnIn.generateAuthCodeFn # << >>
        /\ ~fnIn.generateAuthCodeFn[1].throws
        /\ ~SixDigits(fnIn.generateAuthCodeFn[1].returns)) =>
         Kind(fnOut.res) = "AUTH_CODE_GENERATION_ERROR"

\* C20 witness: a generator returning five digits and a letter was refused
C20_Witness ==
  /\ fnOut.fn = "createUnverifiedAuth"
  /\ fnIn.generateAuthCodeFn =
       <<[throws |-> FALSE, returns |-> <<1, 2, 3, 4, 5, NonDigit>>]>>
  /\ Kind(fnOut.res) = "AUTH_CODE_GENERATION_ERROR"

\* C21: the attempts value of an UnverifiedAuth record is >= 0 and never
\* decreases over any sequence of operations: it is 0 at issuance and changes
\* only through the store's increment, by one.
C21_AttemptsMonotone ==
  [][/\ (store = << >> /\ store' # << >>) => store'[1].attempts = 0
     /\ store # << >> =>
          /\ store' # << >>
          /\ store[1].attempts >= 0
          /\ store'[1].attempts >= store[1].attempts
          /\ store'[1].attempts # store[1].attempts =>
               /\ store'[1].attempts = store[1].attempts + 1
               /\ \E p \in Procs : pc[p] = "increment" /\ pc'[p] = "done"]_vars

\* C21 witness: the stored count has been raised twice and an attempt is
\* running on the record
C21_Witness ==
  /\ store # << >>
  /\ store[1].attempts = 2
  /\ ~retired
  /\ \E p \in Procs : pc[p] = "verify"

\* C22: checkAuthCodeExpiration, checkMaxAttemptsReached and verifyAuthCode
\* never modify what they are given: a passing guard returns the input record
\* with every field unchanged, and after a call, passing or failing, the
\* record (the options, for verifyAuthCode) is as it was given.
C22_InputsUntouched ==
  /\ fnOut.fn \in {"checkAuthCodeExpiration", "checkMaxAttemptsReached"} =>
       /\ fnOut.after = FnRecord
       /\ Kind(fnOut.res) = "OK" => fnOut.res.value = FnRecord
  /\ fnOut.fn = "verifyAuthCode" =>
       fnOut.after = [maxAttempts |-> maxAttempts,
                      verifyAuthCodeFn |-> fnIn.verifyAuthCodeFn]

\* C22 witness: a passing Attempt Guard on a record that has failed attempts
C22_Witness ==
  /\ fnOut.fn = "checkMaxAttemptsReached"
  /\ Kind(fnOut.res) = "OK"
  /\ fnIn.attempts >= 1
  /\ fnOut.res.value.attempts = fnIn.attempts

Eligible(p) ==
  /\ pc[p] \notin {"idle", "expiry"}
  /\ input[p] = delivered
  /\ ~hist[p].wasExpired
  /\ snap[p].attempts < SpecMaxAttempts

\* C24: while a record is not expired and its attempts < maxAttempts, a
\* verification attempt with the correct code succeeds and yields a
\* VerifiedAuth, however many failed attempts (fewer than maxAttempts)
\* preceded it: such an attempt meets no error and ends with a VerifiedAuth.
C24_CorrectCodeSucceeds ==
  \A p \in Procs :
    Eligible(p) =>
      /\ pc[p] \in {"attempts", "verify", "promote", "done"}
      /\ Kind(result[p]) \in {"NONE", "OK"}
      /\ pc[p] = "promote" => result[p] = Ok(TRUE)
      /\ pc[p] = "done" =>
           /\ hist[p].emitted
           /\ \E i \in 1..Len(verified) : verified[i].info = snap[p].info

\* C24 witness: the correct code was accepted after a failed attempt, one
\* short of the limit
C24_Witness ==
  \E p \in Procs :
    /\ Eligible(p)
    /\ pc[p] = "done"
    /\ maxAttempts = <<2>>
    /\ snap[p].attempts = 1
    /\ hist[p].emitted

\* C25: an ACCOUNT_LOCKED error returned by checkMaxAttemptsReached carries
\* unlockAt = the time of that call + 10 minutes, whatever maxAttempts and
\* the record's expiresAt are.
C25_UnlockAt ==
  (fnOut.fn = "checkMaxAttemptsReached" /\ Kind(fnOut.res) = "ACCOUNT_LOCKED") =>
    fnOut.res.error.unlockAt = now + 10

\* C25 witness: a lock reported after the record's expiresAt, under a limit
\* the caller passed
C25_Witness ==
  /\ fnOut.fn = "checkMaxAttemptsReached"
  /\ Kind(fnOut.res) = "ACCOUNT_LOCKED"
  /\ maxAttempts = <<2>>
  /\ fnIn.expiresAt < now
  /\ fnOut.res.error.unlockAt = now + 10

\* C26: createVerifiedAuth succeeds for a validated identifier and returns a
\* record whose identifier is the one passed in, unchanged, and whose
\* verifiedAt is the time of the call.
C26_VerifiedAuthRecord ==
  fnOut.fn = "createVerifiedAuth" =>
    /\ Kind(fnOut.res) = "OK"
    /\ DOMAIN fnOut.res.value = {"info", "verifiedAt"}
    /\ fnOut.res.value.info = [email |-> fnIn.unvalidatedAuth.email[1]]
    /\ fnOut.res.value.verifiedAt = now

\* C26 witness: a VerifiedAuth created, later than minute 0, for an accepted
\* address of the longest length allowed
C26_Witness ==
  /\ fnOut.fn = "createVerifiedAuth"
  /\ now > 0
  /\ fnIn.unvalidatedAuth.email[1].length = 255
  /\ fnOut.res.value.verifiedAt = now

\* C27: every successful call of createUnverifiedAuth returns a record with a
\* fresh id: no two issued records, for the same or for different
\* identifiers, share an id.
C27_FreshIds ==
  \A i, j \in 1..Len(issued) : i # j => issued[i].id # issued[j].id

\* C27 witness: two records were issued for the same identifier
C27_Witness ==
  /\ Len(issued) >= 2
  /\ issued[1].info = issued[2].info
  /\ issued[1].id # issued[2].id

\* checkMaxAttemptsReached lets the record and the limit of the call pass
FnGuardPasses == Kind(checkMaxAttemptsReached(FnRecord, maxAttempts, now)) = "OK"

\* C28: whenever checkMaxAttemptsReached(record, maxAttempts) has succeeded
\* and verifyAuthCode is then called with currentAttempts = record.attempts
\* and the same maxAttempts, a reported remainingAttempts is never negative:
\* it lies in 0 .. maxAttempts - 1.
C28_RemainingNotNegative ==
  (/\ fnOut.fn = "verifyAuthCode"
   /\ FnGuardPasses
   /\ Kind(fnOut.res) = "INVALID_AUTH_CODE") =>
    fnOut.res.error.remainingAttempts \in 0..(SpecMaxAttempts - 1)

\* C28 witness: the last attempt the guard lets through fails and reports 0
C28_Witness ==
  /\ fnOut.fn = "verifyAuthCode"
  /\ FnGuardPasses
  /\ maxAttempts = <<2>>
  /\ fnIn.attempts = 1
  /\ Kind(fnOut.res) = "INVALID_AUTH_CODE"
  /\ fnOut.res.error.remainingAttempts = 0

\* C29 (as stated): checkMaxAttemptsReached and verifyAuthCode apply the same
\* effective attempt limit for every maxAttempts value passed to both, 0
\* included: the limit remainingAttempts is computed from is the one that
\* decides ACCOUNT_LOCKED.
C29_SameLimit ==
  (fnOut.fn = "verifyAuthCode" /\ Kind(fnOut.res) = "INVALID_AUTH_CODE") =>
    LET limit == fnOut.res.error.remainingAttempts + fnIn.attempts + 1
    IN ~FnGuardPasses <=> fnIn.attempts >= limit

C31_VariantsAgree ==
  (/\ fnOut.fn = "verifyAuthCodeMatch"
   /\ \E c \in Codes, s \in Salts : fnIn.hashed = secureHash(c, s)) =>
    fnOut.res = verifyAuthCode(fnIn.input, fnIn.hashed, fnIn.attempts,
                               [maxAttempts |-> maxAttempts,
                                verifyAuthCodeFn |-> << >>])

\* C32: during issuance the generated code is format-checked before it is
\* hashed: the hash function is never invoked on a code that is not exactly
\* 6 digits, and it is invoked at most once per issuance.
C32_HashAfterFormatCheck ==
  fnOut.fn = "createUnverifiedAuth" =>
    /\ Len(fnOut.hashCalls) <= 1
    /\ \A i \in 1..Len(fnOut.hashCalls) : SixDigits(fnOut.hashCalls[i])
    /\ Kind(fnOut.res) = "OK" => fnOut.hashCalls = <<fnOut.res.value.authCode>>

\* C32 witness: an issuance refused for a seven-digit code, the hash function
\* not having been called
C32_Witness ==
  /\ fnOut.fn = "createUnverifiedAuth"
  /\ fnIn.generateAuthCodeFn =
       <<[throws |-> FALSE, returns |-> <<1, 2, 3, 4, 5, 6, 7>>]>>
  /\ fnIn.hashFn = <<"mockHashFn">>
  /\ Kind(fnOut.res) = "AUTH_CODE_GENERATION_ERROR"
  /\ fnOut.hashCalls = << >>

\* a domain name with its letters in lower case
LowerCase(domain) == IF domain = "EXAMPLE.ORG" THEN "example.org" ELSE domain

\* C33 (as stated): validateAuth rejects every syntactically valid identifier
\* whose domain part equals a prohibited domain when letter case is ignored
\* (EXAMPLE.ORG is rejected like example.org).
C33_ProhibitedIgnoringCase ==
  (/\ fnOut.fn = "validateAuth"
   /\ fnIn.unvalidatedAuth.email # << >>
   /\ emailSyntax(fnIn.unvalidatedAuth.email[1])
   /\ LowerCase(fnIn.unvalidatedAuth.email[1].parts[2])
        \in {"example.org", "temp-mail.com"}) =>
    Kind(fnOut.res) = "AUTH_VALIDATION_ERROR"

\* the name given is a string of 1 to 100 characters
ValidName(name) == name # << >> /\ name[1] \in 1..100

\* C34: SignUpCmd.execute calls userRepository.save only after signUp has
\* produced a valid user, at most once, and returns ok(user) only when save
\* returned ok for that same user; when signUp fails save is never called,
\* and when save fails the result is an error.
C34_SaveOnlyValidUser ==
  fnOut.fn = "SignUpCmd.execute" =>
    /\ Len(fnOut.saveCalls) <= 1
    /\ fnOut.saveCalls # << >> =>
         /\ ValidName(fnOut.params.name)
         /\ fnOut.saveCalls[1].name = fnOut.params.name
    /\ Kind(fnOut.res) = "OK" =>
         /\ fnOut.saveCalls # << >>
         /\ fnOut.saveOutcome = "ok"
         /\ fnOut.res.value = fnOut.saveCalls[1]
         /\ users # << >> /\ users[Len(users)] = fnOut.res.value
    /\ ~ValidName(fnOut.params.name) =>
         /\ fnOut.saveCalls = << >>
         /\ Kind(fnOut.res) = "Error"
    /\ (fnOut.saveCalls # << >> /\ fnOut.saveOutcome # "ok") =>
         Kind(fnOut.res) # "OK"
    /\ (fnOut.saveCalls # << >> /\ fnOut.saveOutcome = "err") =>
         Kind(fnOut.res) = "Error"

\* C34 witness: save returned an error for a valid user after an earlier
\* sign-up was saved
C34_Witness ==
  /\ fnOut.fn = "SignUpCmd.execute"
  /\ users # << >>
  /\ fnOut.saveCalls # << >>
  /\ fnOut.saveOutcome = "err"
  /\ Kind(fnOut.res) = "Error"

====
